---- MODULE Spec2Model ----
(***************************************************************************)
(* Model of the Fabric gateway client of plugin-hlf-api:                   *)
(*   main.go                 runServer (startup configuration)             *)
(*   pkg/fabric/client.go    FabricClient: selectRandomPeer,               *)
(*                           createGatewayConnection, InvokeTransaction,   *)
(*                           EvaluateTransaction                           *)
(*   pkg/api/handlers.go     InvokeHandler, EvaluateHandler                *)
(* Every HTTP request is served by its own goroutine; a goroutine is a     *)
(* call slot c with a program counter pc[c] and its local variables        *)
(* loc[c].  The peers, the files on disk and the ledger are the            *)
(* environment.                                                            *)
(***************************************************************************)
EXTENDS Integers, Sequences, FiniteSets, TLC

\* ---- bounds ----
NumCalls == 2
MaxPeers == 2

Calls == 1..NumCalls

\* ---- request inputs ----
Kinds == {"invoke", "evaluate"}
Args == {"a", "b"}
\* the chaincode_name field of a request body
ChaincodeNames == {"basic"}
InitialWorld == "a"

NoErr == [at |-> "", cause |-> ""]
NoRes == [Result |-> "", TxID |-> 0, Success |-> FALSE, BlockNumber |-> 0, ResultCode |-> 0]
NoReq == [kind |-> "", bodyOK |-> FALSE, chaincode |-> "", fcn |-> "", arg |-> ""]
NoResp == [code |-> 0, status |-> "", error |-> <<>>, result |-> NoRes]
NoLoc == [raced |-> FALSE, sel |-> 0, tlsPath |-> -1, target |-> -1, conn |-> "none",
          closes |-> 0, gw |-> "none", gwConn |-> 0, contract |-> 0,
          channel |-> "", chaincode |-> "", via |-> 0]
NoConfig == [ChannelName |-> "", ChaincodeName |-> ""]
NoCnt == [select |-> 0, dial |-> 0, session |-> 0, send |-> 0]

VARIABLES
    srv,         \* runServer: "starting", "running" or "fatal" (log.Fatalf)
    flags,       \* the command-line flags of main.go: how many items the
                 \* --peers and --tlscerts values list, and the --channel value
    config,      \* fc.config: ChannelName and ChaincodeName
    peers,       \* fc.config.Peers: the sequence of PeerConfig
    down,        \* environment: the endpoints whose transport always fails
    badPem,      \* environment: the TLS certificate files whose contents are
                 \* not PEM
    ctxDone,     \* per call: r.Context(), the ctx argument of the client
                 \* call, has been cancelled
    randBusy,    \* fc.rand: the calls currently inside fc.rand.Intn
    randCorrupt, \* fc.rand: the generator's state was damaged by a race
    world,       \* environment: the ledger's world state
    height,      \* environment: number of transactions put into blocks
    pc,          \* position of each call
    req,         \* the decoded TransactionRequest of each call
    loc,         \* the local variables of each call:
                 \*   raced    its Intn overlapped another call's Intn
                 \*   sel      index rand.Intn returned (0: none yet)
                 \*   tlsPath  the TLSCertPath whose file was read (-1: none yet)
                 \*   target   the Endpoint that was dialed (-1: none yet)
                 \*   conn     selectedPeer: "none", "open", "closed"
                 \*   closes   number of Close() calls on selectedPeer
                 \*   gw       the gateway: "none", "open", "closed"
                 \*   gwConn   the call whose connection the gateway uses
                 \*   contract the call whose gateway the contract belongs to
                 \*   channel, chaincode  the names the contract was resolved with
                 \*   via      the contract the transaction was sent through
    tx,          \* environment: the call's transaction:
                 \*   "none", "endorsed", "pending", "valid", "invalid"
    payload,     \* the bytes the peer returned to the call
    blk,         \* environment: block number of the call's transaction
    err,         \* the error the client call returns
    res,         \* the TransactionResult the client call returns
    resp,        \* the HTTP response written for the call
    cnt,         \* per call: how often it selected a peer, dialed, opened a
                 \* session and sent a proposal
    evalAt       \* per call: the ledger height its evaluation was served at

vars == <<srv, flags, config, peers, down, badPem, ctxDone, randBusy, randCorrupt, world, height, pc, req, loc,
          tx, payload, blk, err, res, resp, cnt, evalAt>>

\* ---- chaincode (environment) ----
\* payload a peer computes when it simulates fcn(arg) on world state w
Simulate(fcn, arg, w) == IF fcn = "put" THEN arg ELSE w
\* world state after a valid transaction fcn(arg) is committed on w
Apply(fcn, arg, w) == IF fcn = "put" THEN arg ELSE w

\* ---- startup: main.go runServer ----
\* The value of --peers and of --tlscerts is a comma-separated list; the
\* model names item i of a list by its position i and writes 0 for the empty
\* string.  flags holds how many items each value lists; a value listing no
\* item is the empty string.

\* strings.Split(value, ","), main.go lines 91-92: the items of the value.  Split
\* never returns an empty slice: the empty string is split into one empty item
Split(n) == IF n = 0 THEN <<0>> ELSE [i \in 1..n |-> i]

\* what the flags can hold when runServer starts: --peers, --tlscerts and
\* --channel are required flags, their values are free; there is no flag for
\* the chaincode name
Flags == [peerEndpoints : 0..MaxPeers, tlsCertPaths : 0..MaxPeers,
          channelName : {"mychannel"}]

\* client.go lines 66-79
NewFabricClient(peerConfigs) ==
    IF Len(peerConfigs) = 0 THEN "error" ELSE "ok"

\* mutant: the certificate paths are paired with the endpoints in reverse
PeerConfigs_Reversed(eps, certs) ==
    [i \in 1..Len(eps) |->
       [Endpoint |-> eps[i], TLSCertPath |-> certs[Len(certs) + 1 - i]]]

\* main.go lines 99-106: the i-th endpoint with the i-th certificate path
PeerConfigs(eps, certs) ==
    [i \in 1..Len(eps) |-> [Endpoint |-> eps[i], TLSCertPath |-> certs[i]]]

\* the ClientConfig literal of main.go lines 109-115: MspID, CertPath,
\* KeyPath, Peers and ChannelName are set; ChaincodeName is not, so it keeps
\* the zero value of a Go string
ClientConfig == [ChannelName |-> flags.channelName, ChaincodeName |-> ""]

\* main.go lines 91-118
runServer ==
    /\ srv = "starting"
    /\ LET eps == Split(flags.peerEndpoints)
           certs == Split(flags.tlsCertPaths)
       IN IF Len(eps) # Len(certs)
          THEN /\ srv' = "fatal"
               /\ peers' = <<>>
               /\ config' = config
          ELSE LET peerConfigs == PeerConfigs(eps, certs)
               IN IF NewFabricClient(peerConfigs) = "error"
                  THEN /\ srv' = "fatal"
                       /\ peers' = <<>>
                       /\ config' = config
                  ELSE /\ srv' = "running"
                       /\ peers' = peerConfigs
                       /\ config' = ClientConfig
    /\ UNCHANGED <<flags, down, badPem, ctxDone, randBusy, randCorrupt, world, height, pc, req, loc,
                   tx, payload, blk, err, res, resp, cnt, evalAt>>

\* ---- errors: fmt.Errorf wrapping in client.go ----
\* mutant: the commit-status failure is reported with the submit failure's text
ErrorMessage_SamePrefix(e) ==
    CASE e.at = "submit"    -> <<"failed to submit transaction", e.cause>>
      [] e.at = "commit"    -> <<"failed to submit transaction", e.cause>>
      [] OTHER              -> <<e.at, e.cause>>

\* the chain of message prefixes of an error, outermost first, then its cause
ErrorMessage(e) ==
    CASE e.at = "tlsread"   -> <<"failed to select peer", "failed to read TLS cert file for peer", e.cause>>
      [] e.at = "dial"      -> <<"failed to select peer", "failed to create gRPC connection to peer", e.cause>>
      [] e.at = "certread"  -> <<"failed to create gateway connection", "failed to read certificate file", e.cause>>
      [] e.at = "certparse" -> <<"failed to create gateway connection", "failed to parse certificate for the peer", e.cause>>
      [] e.at = "identity"  -> <<"failed to create gateway connection", "failed to create identity", e.cause>>
      [] e.at = "keyread"   -> <<"failed to create gateway connection", "failed to read private key file", e.cause>>
      [] e.at = "keyparse"  -> <<"failed to create gateway connection", "failed to create private key", e.cause>>
      [] e.at = "signer"    -> <<"failed to create gateway connection", "failed to create signer", e.cause>>
      [] e.at = "connect"   -> <<"failed to create gateway connection", e.cause>>
      [] e.at = "submit"    -> <<"failed to submit transaction", e.cause>>
      [] e.at = "commit"    -> <<"failed to get commit status", e.cause>>
      [] e.at = "evaluate"  -> <<"failed to evaluate transaction", e.cause>>
      [] OTHER              -> <<>>

\* failure points of createGatewayConnection, in the order the code checks them
GatewayFailures ==
    { [at |-> "certread",  cause |-> "ENOENT"],
      [at |-> "certparse", cause |-> "bad PEM"],
      [at |-> "identity",  cause |-> "bad identity"],
      [at |-> "keyread",   cause |-> "ENOENT"],
      [at |-> "keyparse",  cause |-> "bad PEM"],
      [at |-> "signer",    cause |-> "bad key"],
      [at |-> "connect",   cause |-> "bad option"] }

\* ---- HTTP layer: handlers.go ----
\* handlers.go lines 88-94
sendErrorResponse(status, message) ==
    [code |-> status, status |-> "error", error |-> message, result |-> NoRes]

\* handlers.go lines 82-86
sendJSONResponse(status, result) ==
    [code |-> status, status |-> "success", error |-> <<>>, result |-> result]

\* what json.Decode yields: a request, or a decoding error.  The handler
\* passes Function and Args on unread (lines 45 / 69); the model draws their
\* values where they are first read, when the proposal is built (client.go
\* lines 166 / 204), and leaves them blank until then
Requests == [kind : Kinds, bodyOK : BOOLEAN, chaincode : ChaincodeNames,
             fcn : {""}, arg : {""}]

\* the functions of the chaincode with their arguments: "get" takes none,
\* "put" takes the value to store
Invocations == {<<"get", "">>} \cup {<<"put", a>> : a \in Args}

\* mutant: the decoding error is not checked and the client is called with
\* whatever was decoded
HandlerDecode_Lenient(c) ==
    /\ srv = "running"
    /\ pc[c] = "idle"
    /\ \A d \in Calls : d < c => pc[d] # "idle"
    /\ \E r \in Requests :
         /\ req' = [req EXCEPT ![c] = r]
         /\ pc' = [pc EXCEPT ![c] = "select"]
         /\ resp' = resp
    /\ UNCHANGED <<srv, flags, config, peers, down, badPem, ctxDone, randBusy, randCorrupt, world, height, loc,
                   tx, payload, blk, err, res, cnt, evalAt>>

\* InvokeHandler / EvaluateHandler, lines 39-43 and 63-67: decode the body.
\* Call slots are interchangeable, so they are taken in order
HandlerDecode(c) ==
    /\ srv = "running"
    /\ pc[c] = "idle"
    /\ \A d \in Calls : d < c => pc[d] # "idle"
    /\ \E r \in Requests :
         /\ req' = [req EXCEPT ![c] = r]
         /\ IF r.bodyOK
            THEN /\ pc' = [pc EXCEPT ![c] = "select"]
                 /\ resp' = resp
            ELSE /\ pc' = [pc EXCEPT ![c] = "done"]
                 /\ resp' = [resp EXCEPT ![c] = sendErrorResponse(400, <<"Invalid request body">>)]
    /\ UNCHANGED <<srv, flags, config, peers, down, badPem, ctxDone, randBusy, randCorrupt, world, height, loc,
                   tx, payload, blk, err, res, cnt, evalAt>>

\* InvokeHandler lines 45-59 / EvaluateHandler lines 69-79: answer the request
HandlerRespond(c) ==
    /\ pc[c] = "return"
    /\ pc' = [pc EXCEPT ![c] = "done"]
    /\ resp' = [resp EXCEPT ![c] =
                 IF err[c] # NoErr
                 THEN sendErrorResponse(500, ErrorMessage(err[c]))
                 ELSE IF req[c].kind = "invoke"
                      THEN sendJSONResponse(200, res[c])
                      ELSE sendJSONResponse(200, [NoRes EXCEPT !.Result = payload[c]])]
    /\ UNCHANGED <<srv, flags, config, peers, down, badPem, ctxDone, randBusy, randCorrupt, world, height, req, loc,
                   tx, payload, blk, err, res, cnt, evalAt>>

\* chi middleware.Recoverer (main.go line 127): a panic in the handler is
\* answered with a bare 500
Recoverer(c) ==
    /\ pc[c] = "panic"
    /\ pc' = [pc EXCEPT ![c] = "done"]
    /\ resp' = [resp EXCEPT ![c] = [code |-> 500, status |-> "", error |-> <<>>, result |-> NoRes]]
    /\ UNCHANGED <<srv, flags, config, peers, down, badPem, ctxDone, randBusy, randCorrupt, world, height, req, loc,
                   tx, payload, blk, err, res, cnt, evalAt>>

\* ---- selectRandomPeer, client.go lines 82-103 ----
\* line 84, fc.rand.Intn begins: the call starts reading and writing the
\* generator's state; nothing excludes other calls
RandEnter(c) ==
    /\ pc[c] = "select"
    /\ pc' = [pc EXCEPT ![c] = "intn"]
    /\ randBusy' = randBusy \cup {c}
    /\ loc' = [d \in Calls |->
                 IF randBusy # {} /\ d \in randBusy \cup {c}
                 THEN [loc[d] EXCEPT !.raced = TRUE]
                 ELSE loc[d]]
    /\ cnt' = [cnt EXCEPT ![c].select = @ + 1]
    /\ UNCHANGED <<srv, flags, config, peers, down, badPem, ctxDone, randCorrupt, world, height, req,
                   tx, payload, blk, err, res, resp, evalAt>>

\* mutant: health feedback: a peer on which a finished call failed is not
\* selected again
RandLeave_HealthFeedback(c) ==
    /\ pc[c] = "intn"
    /\ randBusy' = randBusy \ {c}
    /\ \/ /\ \E i \in 1..Len(peers) :
               /\ \A d \in Calls : ~(pc[d] = "done" /\ err[d] # NoErr /\ loc[d].sel = i)
               /\ loc' = [loc EXCEPT ![c].sel = i, ![c].raced = FALSE]
          /\ pc' = [pc EXCEPT ![c] = "readTLS"]
          /\ randCorrupt' \in (IF loc[c].raced THEN {randCorrupt, TRUE} ELSE {randCorrupt})
       \/ /\ loc[c].raced \/ randCorrupt
          /\ loc' = [loc EXCEPT ![c].raced = FALSE]
          /\ pc' = [pc EXCEPT ![c] = "panic"]
          /\ randCorrupt' = TRUE
    /\ UNCHANGED <<srv, flags, config, peers, down, badPem, ctxDone, world, height, req,
                   tx, payload, blk, err, res, resp, cnt, evalAt>>

\* line 84, fc.rand.Intn ends.  Alone on an intact generator it returns an
\* index in range.  After unsynchronized overlapping access the generator's
\* tap/feed cursors may be left out of range; Intn then panics (index out of
\* range) in this and in later calls
RandLeave(c) ==
    /\ pc[c] = "intn"
    /\ randBusy' = randBusy \ {c}
    /\ \/ /\ \E i \in 1..Len(peers) :
               loc' = [loc EXCEPT ![c].sel = i, ![c].raced = FALSE]
          /\ pc' = [pc EXCEPT ![c] = "readTLS"]
          /\ randCorrupt' \in (IF loc[c].raced THEN {randCorrupt, TRUE} ELSE {randCorrupt})
       \/ /\ loc[c].raced \/ randCorrupt
          /\ loc' = [loc EXCEPT ![c].raced = FALSE]
          /\ pc' = [pc EXCEPT ![c] = "panic"]
          /\ randCorrupt' = TRUE
    /\ UNCHANGED <<srv, flags, config, peers, down, badPem, ctxDone, world, height, req,
                   tx, payload, blk, err, res, resp, cnt, evalAt>>

\* lines 87-90: os.ReadFile(peerConfig.TLSCertPath).  The file may be
\* unreadable; the empty path names no file
ReadTLSCert(c) ==
    /\ pc[c] = "readTLS"
    /\ loc' = [loc EXCEPT ![c].tlsPath = peers[loc[c].sel].TLSCertPath]
    /\ \/ /\ peers[loc[c].sel].TLSCertPath # 0
          /\ pc' = [pc EXCEPT ![c] = "dial"]
          /\ err' = err
       \/ /\ pc' = [pc EXCEPT ![c] = "return"]
          /\ err' = [err EXCEPT ![c] = [at |-> "tlsread", cause |-> "ENOENT"]]
    /\ UNCHANGED <<srv, flags, config, peers, down, badPem, ctxDone, randBusy, randCorrupt, world, height, req,
                   tx, payload, blk, res, resp, cnt, evalAt>>

\* lines 92-95: certPool.AppendCertsFromPEM(tlsCert) puts the certificates
\* found in the file into the pool of trust roots of the call's connection.
\* It reports whether it found any; the code does not look at that, so a file
\* that is not PEM leaves the pool empty
TrustRoots(c) == IF loc[c].tlsPath \in badPem THEN {} ELSE {loc[c].tlsPath}

\* environment: an endpoint nothing can connect to: it is down, or it is the
\* empty address
Unreachable(e) == e = 0 \/ e \in down

\* mutant: every connection goes to the first configured peer
DialTarget_First(c) == peers[1].Endpoint

\* line 97: the address that is dialed
DialTarget(c) == peers[loc[c].sel].Endpoint

\* mutant: a peer whose dial failed is moved from its place to the other end
\* of the peer list
Dial_Demote(c) ==
    /\ pc[c] = "dial"
    /\ \/ /\ pc' = [pc EXCEPT ![c] = "gateway"]
          /\ loc' = [loc EXCEPT ![c].conn = "open", ![c].target = DialTarget(c)]
          /\ cnt' = [cnt EXCEPT ![c].dial = @ + 1]
          /\ err' = err
          /\ peers' = peers
       \/ /\ Unreachable(DialTarget(c))
          /\ pc' = [pc EXCEPT ![c] = "return"]
          /\ loc' = [loc EXCEPT ![c].target = DialTarget(c)]
          /\ cnt' = cnt
          /\ err' = [err EXCEPT ![c] = [at |-> "dial", cause |-> "Unavailable"]]
          /\ peers' = [i \in 1..Len(peers) |-> peers[Len(peers) + 1 - i]]
    /\ UNCHANGED <<srv, flags, config, down, badPem, ctxDone, randBusy, randCorrupt, world, height, req,
                   tx, payload, blk, res, resp, evalAt>>

\* lines 97-102: grpc.Dial(peerConfig.Endpoint, ...).  Dial does not block:
\* towards a failing peer it either fails at once or hands back a connection
\* on which every later call fails
Dial(c) ==
    /\ pc[c] = "dial"
    /\ \/ /\ pc' = [pc EXCEPT ![c] = "gateway"]
          /\ loc' = [loc EXCEPT ![c].conn = "open", ![c].target = DialTarget(c)]
          /\ cnt' = [cnt EXCEPT ![c].dial = @ + 1]
          /\ err' = err
       \/ /\ Unreachable(DialTarget(c))
          /\ pc' = [pc EXCEPT ![c] = "return"]
          /\ loc' = [loc EXCEPT ![c].target = DialTarget(c)]
          /\ cnt' = cnt
          /\ err' = [err EXCEPT ![c] = [at |-> "dial", cause |-> "Unavailable"]]
    /\ UNCHANGED <<srv, flags, config, peers, down, badPem, ctxDone, randBusy, randCorrupt, world, height, req,
                   tx, payload, blk, res, resp, evalAt>>

\* ---- createGatewayConnection, client.go lines 106-144 ----
\* mutant: the transaction is submitted before the error of the session's
\* creation is looked at
createGatewayConnection_LateCheck(c) ==
    /\ pc[c] = "gateway"
    /\ \/ /\ loc' = [loc EXCEPT ![c].gw = "open", ![c].gwConn = c]
          /\ cnt' = [cnt EXCEPT ![c].session = @ + 1]
          /\ pc' = [pc EXCEPT ![c] = "contract"]
          /\ err' = err
          /\ tx' = tx
       \/ \E e \in GatewayFailures :
            /\ loc' = loc
            /\ cnt' = [cnt EXCEPT ![c].send = @ + 1]
            /\ tx' = [tx EXCEPT ![c] = IF req[c].kind = "invoke" THEN "pending" ELSE @]
            /\ pc' = [pc EXCEPT ![c] = "closeNow"]
            /\ err' = [err EXCEPT ![c] = e]
    /\ UNCHANGED <<srv, flags, config, peers, down, badPem, ctxDone, randBusy, randCorrupt, world, height, req,
                   payload, blk, res, resp, evalAt>>

\* mutant: the identity is loaded once and kept in the client: after a call
\* failed to load it, no later call gets a session
createGatewayConnection_Cached(c) ==
    /\ pc[c] = "gateway"
    /\ \/ /\ \A d \in Calls : err[d] \notin GatewayFailures
          /\ loc' = [loc EXCEPT ![c].gw = "open", ![c].gwConn = c]
          /\ cnt' = [cnt EXCEPT ![c].session = @ + 1]
          /\ pc' = [pc EXCEPT ![c] = "contract"]
          /\ err' = err
       \/ \E e \in GatewayFailures :
            /\ loc' = loc
            /\ cnt' = cnt
            /\ pc' = [pc EXCEPT ![c] = "closeNow"]
            /\ err' = [err EXCEPT ![c] = e]
    /\ UNCHANGED <<srv, flags, config, peers, down, badPem, ctxDone, randBusy, randCorrupt, world, height, req,
                   tx, payload, blk, res, resp, evalAt>>

\* reads and parses the client certificate and key, builds the signer and
\* connects the gateway over the connection it was given (the caller's own)
createGatewayConnection(c) ==
    /\ pc[c] = "gateway"
    /\ \/ /\ loc' = [loc EXCEPT ![c].gw = "open", ![c].gwConn = c]
          /\ cnt' = [cnt EXCEPT ![c].session = @ + 1]
          /\ pc' = [pc EXCEPT ![c] = "contract"]
          /\ err' = err
       \/ \E e \in GatewayFailures :
            /\ loc' = loc
            /\ cnt' = cnt
            /\ pc' = [pc EXCEPT ![c] = "closeNow"]
            /\ err' = [err EXCEPT ![c] = e]
    /\ UNCHANGED <<srv, flags, config, peers, down, badPem, ctxDone, randBusy, randCorrupt, world, height, req,
                   tx, payload, blk, res, resp, evalAt>>

\* mutant: the failure of the session's creation is returned without the
\* explicit Close
ExplicitClose_Skip(c) ==
    /\ pc[c] = "closeNow"
    /\ loc' = loc
    /\ pc' = [pc EXCEPT ![c] = "deferConn"]
    /\ UNCHANGED <<srv, flags, config, peers, down, badPem, ctxDone, randBusy, randCorrupt, world, height, req,
                   tx, payload, blk, err, res, resp, cnt, evalAt>>

\* lines 157-160 / 195-198: selectedPeer.Close() when the gateway could not
\* be created; the deferred Close of line 153 / 192 still follows
ExplicitClose(c) ==
    /\ pc[c] = "closeNow"
    /\ loc' = [loc EXCEPT ![c].conn = "closed", ![c].closes = @ + 1]
    /\ pc' = [pc EXCEPT ![c] = "deferConn"]
    /\ UNCHANGED <<srv, flags, config, peers, down, badPem, ctxDone, randBusy, randCorrupt, world, height, req,
                   tx, payload, blk, err, res, resp, cnt, evalAt>>

\* lines 163-164 / 201-202: gw.GetNetwork(fc.config.ChannelName) and
\* network.GetContract(fc.config.ChaincodeName) into the local variable
\* contract
GetContract(c) ==
    /\ pc[c] = "contract"
    /\ loc' = [loc EXCEPT ![c].contract = c,
                           ![c].channel = config.ChannelName,
                           ![c].chaincode = config.ChaincodeName]
    /\ pc' = [pc EXCEPT ![c] = "call"]
    /\ UNCHANGED <<srv, flags, config, peers, down, badPem, ctxDone, randBusy, randCorrupt, world, height, req,
                   tx, payload, blk, err, res, resp, cnt, evalAt>>

\* mutant: the contract is a field of the client, overwritten by whichever
\* call connected last
ContractOf_Shared(c) ==
    LET live == {d \in Calls : loc[d].contract # 0}
    IN CHOOSE d \in live : \A e \in live : e <= d

\* lines 166 / 204: the contract the call sends through: its local variable
ContractOf(c) == loc[c].contract

\* what a request sent through contract h meets: the connection under h's
\* gateway may be closed, its peer may be unreachable, and the TLS handshake
\* fails unless the peer's certificate (the peer at the i-th endpoint presents
\* the certificate of the i-th file) is among the connection's trust roots
Reach(h) ==
    LET g == loc[h].gwConn
    IN IF loc[g].conn # "open" THEN "Canceled"
       ELSE IF Unreachable(loc[g].target) THEN "Unavailable"
       ELSE IF loc[g].target \notin TrustRoots(g) THEN "Unavailable"
       ELSE "OK"

\* ---- InvokeTransaction, client.go lines 163-183 ----
\* mutant: a submit that cannot reach the peer is retried on another peer
Endorse_Retry(c) ==
    /\ pc[c] = "call"
    /\ req[c].kind = "invoke"
    /\ loc' = [loc EXCEPT ![c].via = ContractOf(c)]
    /\ cnt' = [cnt EXCEPT ![c].send = @ + 1]
    /\ IF Reach(ContractOf(c)) # "OK"
       THEN /\ pc' = [pc EXCEPT ![c] = "select"]
            /\ UNCHANGED <<tx, payload, err, req>>
       ELSE /\ pc' = [pc EXCEPT ![c] = "order"]
            /\ tx' = [tx EXCEPT ![c] = "endorsed"]
            /\ \E i \in Invocations :
                 /\ req' = [req EXCEPT ![c].fcn = i[1], ![c].arg = i[2]]
                 /\ payload' = [payload EXCEPT ![c] = Simulate(i[1], i[2], world)]
            /\ err' = err
    /\ UNCHANGED <<srv, flags, config, peers, down, badPem, ctxDone, randBusy, randCorrupt, world, height,
                   blk, res, resp, evalAt>>

\* line 166, contract.SubmitAsync, first half: the proposal is sent through
\* the contract to its peer and endorsed
Endorse(c) ==
    /\ pc[c] = "call"
    /\ req[c].kind = "invoke"
    /\ loc' = [loc EXCEPT ![c].via = ContractOf(c)]
    /\ cnt' = [cnt EXCEPT ![c].send = @ + 1]
    /\ IF Reach(ContractOf(c)) # "OK"
       THEN /\ pc' = [pc EXCEPT ![c] = "deferGw"]
            /\ err' = [err EXCEPT ![c] = [at |-> "submit", cause |-> Reach(ContractOf(c))]]
            /\ UNCHANGED <<tx, payload, req>>
       ELSE \/ /\ pc' = [pc EXCEPT ![c] = "order"]
               /\ tx' = [tx EXCEPT ![c] = "endorsed"]
               /\ \E i \in Invocations :
                    /\ req' = [req EXCEPT ![c].fcn = i[1], ![c].arg = i[2]]
                    /\ payload' = [payload EXCEPT ![c] = Simulate(i[1], i[2], world)]
               /\ err' = err
            \/ /\ pc' = [pc EXCEPT ![c] = "deferGw"]
               /\ err' = [err EXCEPT ![c] = [at |-> "submit", cause |-> "Aborted"]]
               /\ UNCHANGED <<tx, payload, req>>
    /\ UNCHANGED <<srv, flags, config, peers, down, badPem, ctxDone, randBusy, randCorrupt, world, height,
                   blk, res, resp, evalAt>>

\* mutant: the error of SubmitAsync is dropped and the call goes on to wait
\* for the commit status
Order_IgnoreErr(c) ==
    /\ pc[c] = "order"
    /\ pc' = [pc EXCEPT ![c] = "status"]
    /\ err' = err
    /\ \/ tx' = [tx EXCEPT ![c] = "pending"]
       \/ tx' = tx
    /\ UNCHANGED <<srv, flags, config, peers, down, badPem, ctxDone, randBusy, randCorrupt, world, height, req, loc,
                   payload, blk, res, resp, cnt, evalAt>>

\* line 166, contract.SubmitAsync, second half: the endorsed transaction is
\* handed to the ordering service; lines 167-169 return its error
Order(c) ==
    /\ pc[c] = "order"
    /\ \/ /\ pc' = [pc EXCEPT ![c] = "status"]
          /\ tx' = [tx EXCEPT ![c] = "pending"]
          /\ err' = err
       \/ /\ pc' = [pc EXCEPT ![c] = "deferGw"]
          /\ tx' = tx
          /\ err' = [err EXCEPT ![c] = [at |-> "submit", cause |-> "DeadlineExceeded"]]
    /\ UNCHANGED <<srv, flags, config, peers, down, badPem, ctxDone, randBusy, randCorrupt, world, height, req, loc,
                   payload, blk, res, resp, cnt, evalAt>>

\* mutant: a call that got a commit status reports its transaction as valid
TransactionResult_AssumeValid(c) ==
    [Result      |-> payload[c],
     TxID        |-> c,
     BlockNumber |-> blk[c],
     ResultCode  |-> 0,
     Success     |-> TRUE]

\* lines 176-182: the TransactionResult built from the commit status.
\* commit.TransactionID() is the id the SDK computed for this call's own
\* proposal from a fresh nonce; the call's index stands for it
TransactionResult(c) ==
    [Result      |-> payload[c],
     TxID        |-> c,
     BlockNumber |-> blk[c],
     ResultCode  |-> IF tx[c] = "valid" THEN 0 ELSE 11,
     Success     |-> tx[c] = "valid"]

\* mutant: the result is returned as soon as the transaction is submitted
CommitStatus_NoWait(c) ==
    /\ pc[c] = "status"
    /\ pc' = [pc EXCEPT ![c] = "deferGw"]
    /\ res' = [res EXCEPT ![c] = TransactionResult(c)]
    /\ err' = err
    /\ UNCHANGED <<srv, flags, config, peers, down, badPem, ctxDone, randBusy, randCorrupt, world, height, req, loc,
                   tx, payload, blk, resp, cnt, evalAt>>

\* mutant: commit.Status() has no timeout and waits until the status is known
CommitStatus_NoTimeout(c) ==
    /\ pc[c] = "status"
    /\ tx[c] \in {"valid", "invalid"}
    /\ pc' = [pc EXCEPT ![c] = "deferGw"]
    /\ res' = [res EXCEPT ![c] = TransactionResult(c)]
    /\ err' = err
    /\ UNCHANGED <<srv, flags, config, peers, down, badPem, ctxDone, randBusy, randCorrupt, world, height, req, loc,
                   tx, payload, blk, resp, cnt, evalAt>>

\* mutant: the commit-status wait is given ctx and ends when ctx is cancelled
CommitStatus_CtxAware(c) ==
    /\ pc[c] = "status"
    /\ pc' = [pc EXCEPT ![c] = "deferGw"]
    /\ IF ctxDone[c]
       THEN /\ res' = res
            /\ err' = [err EXCEPT ![c] = [at |-> "commit", cause |-> "Canceled"]]
       ELSE \/ /\ tx[c] \in {"valid", "invalid"}
               /\ res' = [res EXCEPT ![c] = TransactionResult(c)]
               /\ err' = err
            \/ /\ res' = res
               /\ err' = [err EXCEPT ![c] = [at |-> "commit", cause |-> "DeadlineExceeded"]]
    /\ UNCHANGED <<srv, flags, config, peers, down, badPem, ctxDone, randBusy, randCorrupt, world, height, req, loc,
                   tx, payload, blk, resp, cnt, evalAt>>

\* lines 171-182: commit.Status() returns once the transaction's commit
\* status is known, or fails when the commit status timeout ends the wait
CommitStatus(c) ==
    /\ pc[c] = "status"
    /\ pc' = [pc EXCEPT ![c] = "deferGw"]
    /\ \/ /\ tx[c] \in {"valid", "invalid"}
          /\ res' = [res EXCEPT ![c] = TransactionResult(c)]
          /\ err' = err
       \/ /\ res' = res
          /\ err' = [err EXCEPT ![c] = [at |-> "commit", cause |-> "DeadlineExceeded"]]
    /\ UNCHANGED <<srv, flags, config, peers, down, badPem, ctxDone, randBusy, randCorrupt, world, height, req, loc,
                   tx, payload, blk, resp, cnt, evalAt>>

\* ---- EvaluateTransaction, client.go lines 201-211 ----
\* mutant: the query is sent with Submit, as in InvokeTransaction
Evaluate_Submit(c) ==
    /\ pc[c] = "call"
    /\ req[c].kind = "evaluate"
    /\ pc' = [pc EXCEPT ![c] = "deferGw"]
    /\ loc' = [loc EXCEPT ![c].via = ContractOf(c)]
    /\ cnt' = [cnt EXCEPT ![c].send = @ + 1]
    /\ IF Reach(ContractOf(c)) # "OK"
       THEN /\ err' = [err EXCEPT ![c] = [at |-> "evaluate", cause |-> Reach(ContractOf(c))]]
            /\ UNCHANGED <<payload, evalAt, tx, req>>
       ELSE /\ \E i \in Invocations :
                 /\ req' = [req EXCEPT ![c].fcn = i[1], ![c].arg = i[2]]
                 /\ payload' = [payload EXCEPT ![c] = Simulate(i[1], i[2], world)]
            /\ evalAt' = [evalAt EXCEPT ![c] = height]
            /\ tx' = [tx EXCEPT ![c] = "pending"]
            /\ err' = err
    /\ UNCHANGED <<srv, flags, config, peers, down, badPem, ctxDone, randBusy, randCorrupt, world, height,
                   blk, res, resp>>

\* line 204, contract.Evaluate: the proposal is sent through the contract to
\* its peer, which simulates it on its current state and answers
Evaluate(c) ==
    /\ pc[c] = "call"
    /\ req[c].kind = "evaluate"
    /\ pc' = [pc EXCEPT ![c] = "deferGw"]
    /\ loc' = [loc EXCEPT ![c].via = ContractOf(c)]
    /\ cnt' = [cnt EXCEPT ![c].send = @ + 1]
    /\ IF Reach(ContractOf(c)) # "OK"
       THEN /\ err' = [err EXCEPT ![c] = [at |-> "evaluate", cause |-> Reach(ContractOf(c))]]
            /\ UNCHANGED <<payload, evalAt, req>>
       ELSE \/ /\ \E i \in Invocations :
                    /\ req' = [req EXCEPT ![c].fcn = i[1], ![c].arg = i[2]]
                    /\ payload' = [payload EXCEPT ![c] = Simulate(i[1], i[2], world)]
               /\ evalAt' = [evalAt EXCEPT ![c] = height]
               /\ err' = err
            \/ /\ err' = [err EXCEPT ![c] = [at |-> "evaluate", cause |-> "Aborted"]]
               /\ UNCHANGED <<payload, evalAt, req>>
    /\ UNCHANGED <<srv, flags, config, peers, down, badPem, ctxDone, randBusy, randCorrupt, world, height,
                   tx, blk, res, resp>>

\* ---- deferred calls, run last registered first ----
\* mutant: the deferred calls run in the order they were registered
DeferGwClose_ConnFirst(c) ==
    /\ pc[c] = "deferGw"
    /\ loc' = [loc EXCEPT ![c].conn = "closed", ![c].closes = @ + 1]
    /\ pc' = [pc EXCEPT ![c] = "deferConn"]
    /\ UNCHANGED <<srv, flags, config, peers, down, badPem, ctxDone, randBusy, randCorrupt, world, height, req,
                   tx, payload, blk, err, res, resp, cnt, evalAt>>

\* line 161 / 199: defer gw.Close()
DeferGwClose(c) ==
    /\ pc[c] = "deferGw"
    /\ loc' = [loc EXCEPT ![c].gw = "closed"]
    /\ pc' = [pc EXCEPT ![c] = "deferConn"]
    /\ UNCHANGED <<srv, flags, config, peers, down, badPem, ctxDone, randBusy, randCorrupt, world, height, req,
                   tx, payload, blk, err, res, resp, cnt, evalAt>>

\* mutant: the connection is closed at the end of the successful path only
DeferConnClose_Leak(c) ==
    /\ pc[c] = "deferConn"
    /\ loc' = IF err[c] = NoErr
              THEN [loc EXCEPT ![c].conn = "closed", ![c].closes = @ + 1]
              ELSE loc
    /\ pc' = [pc EXCEPT ![c] = "return"]
    /\ UNCHANGED <<srv, flags, config, peers, down, badPem, ctxDone, randBusy, randCorrupt, world, height, req,
                   tx, payload, blk, err, res, resp, cnt, evalAt>>

\* line 153 / 192: defer selectedPeer.Close()
DeferConnClose(c) ==
    /\ pc[c] = "deferConn"
    /\ loc' = [loc EXCEPT ![c].conn = "closed", ![c].closes = @ + 1]
    /\ pc' = [pc EXCEPT ![c] = "return"]
    /\ UNCHANGED <<srv, flags, config, peers, down, badPem, ctxDone, randBusy, randCorrupt, world, height, req,
                   tx, payload, blk, err, res, resp, cnt, evalAt>>

\* ---- environment: the ledger ----
\* an ordered transaction is put into a block and found valid: its write is
\* applied to the world state
LedgerValid(c) ==
    /\ tx[c] = "pending"
    /\ height' = height + 1
    /\ blk' = [blk EXCEPT ![c] = height + 1]
    /\ tx' = [tx EXCEPT ![c] = "valid"]
    /\ world' = Apply(req[c].fcn, req[c].arg, world)
    /\ UNCHANGED <<srv, flags, config, peers, down, badPem, ctxDone, randBusy, randCorrupt, pc, req, loc,
                   payload, err, res, resp, cnt, evalAt>>

\* an ordered transaction is put into a block and invalidated
LedgerInvalid(c) ==
    /\ tx[c] = "pending"
    /\ height' = height + 1
    /\ blk' = [blk EXCEPT ![c] = height + 1]
    /\ tx' = [tx EXCEPT ![c] = "invalid"]
    /\ world' = world
    /\ UNCHANGED <<srv, flags, config, peers, down, badPem, ctxDone, randBusy, randCorrupt, pc, req, loc,
                   payload, err, res, resp, cnt, evalAt>>

\* ---- specification ----
Init ==
    /\ srv = "starting"
    /\ flags \in Flags
    /\ config = NoConfig
    /\ peers = <<>>
    /\ down \in SUBSET (1..flags.peerEndpoints)
    /\ badPem \in SUBSET (1..flags.tlsCertPaths)
    /\ ctxDone = [c \in Calls |-> FALSE]
    /\ randBusy = {}
    /\ randCorrupt = FALSE
    /\ world = InitialWorld
    /\ height = 0
    /\ pc = [c \in Calls |-> "idle"]
    /\ req = [c \in Calls |-> NoReq]
    /\ loc = [c \in Calls |-> NoLoc]
    /\ tx = [c \in Calls |-> "none"]
    /\ payload = [c \in Calls |-> ""]
    /\ blk = [c \in Calls |-> 0]
    /\ err = [c \in Calls |-> NoErr]
    /\ res = [c \in Calls |-> NoRes]
    /\ resp = [c \in Calls |-> NoResp]
    /\ cnt = [c \in Calls |-> NoCnt]
    /\ evalAt = [c \in Calls |-> 0]

Next ==
    \/ runServer
    \/ \E c \in Calls : HandlerDecode(c)
    \/ \E c \in Calls : RandEnter(c)
    \/ \E c \in Calls : RandLeave(c)
    \/ \E c \in Calls : Recoverer(c)
    \/ \E c \in Calls : ReadTLSCert(c)
    \/ \E c \in Calls : Dial(c)
    \/ \E c \in Calls : createGatewayConnection(c)
    \/ \E c \in Calls : ExplicitClose(c)
    \/ \E c \in Calls : GetContract(c)
    \/ \E c \in Calls : Endorse(c)
    \/ \E c \in Calls : Order(c)
    \/ \E c \in Calls : CommitStatus(c)
    \/ \E c \in Calls : Evaluate(c)
    \/ \E c \in Calls : DeferGwClose(c)
    \/ \E c \in Calls : DeferConnClose(c)
    \/ \E c \in Calls : HandlerRespond(c)
    \/ \E c \in Calls : LedgerValid(c)
    \/ \E c \in Calls : LedgerInvalid(c)

Spec == Init /\ [][Next]_vars

\* ---- cancellation ----
\* net/http cancels r.Context() when the client's connection goes away while
\* the handler runs; the handlers pass that context as ctx (handlers.go 45 /
\* 69), and InvokeTransaction and EvaluateTransaction never read ctx
CancelContext(c) ==
    /\ pc[c] \notin {"idle", "done"}
    /\ ~ctxDone[c]
    /\ ctxDone' = [ctxDone EXCEPT ![c] = TRUE]
    /\ UNCHANGED <<srv, flags, config, peers, down, badPem, randBusy, randCorrupt, world, height,
                   pc, req, loc, tx, payload, blk, err, res, resp, cnt, evalAt>>

NextCtx ==
    \/ Next
    \/ \E c \in Calls : CancelContext(c)

\* cancellation is checked on a server with MaxPeers peers of which the first
\* one is healthy or down
InitCtx ==
    /\ Init
    /\ flags.peerEndpoints = MaxPeers /\ flags.tlsCertPaths = MaxPeers
    /\ down \subseteq {1} /\ badPem = {}

SpecCtx == InitCtx /\ [][NextCtx]_vars

\* the steps of one request's goroutine, from the call of the client to the
\* response
CallStep(c) ==
    \/ RandEnter(c) \/ RandLeave(c) \/ Recoverer(c)
    \/ ReadTLSCert(c) \/ Dial(c)
    \/ createGatewayConnection(c) \/ ExplicitClose(c) \/ GetContract(c)
    \/ Endorse(c) \/ Order(c) \/ CommitStatus(c) \/ Evaluate(c)
    \/ DeferGwClose(c) \/ DeferConnClose(c) \/ HandlerRespond(c)

\* the Go scheduler keeps running every goroutine that can take a step, and
\* time passes, so a timeout that is pending fires; nothing is assumed of the
\* arrival of requests or of the ledger
\* liveness is checked on a server with MaxPeers peers of which the first one
\* is down, so that a call meets a failing or a healthy peer as it selects
InitLive ==
    /\ Init
    /\ flags.peerEndpoints = MaxPeers /\ flags.tlsCertPaths = MaxPeers
    /\ down = {1} /\ badPem = {}

SpecLive == InitLive /\ [][Next]_vars /\ \A c \in Calls : WF_vars(CallStep(c))

\* ---- properties ----
Returned(c) == pc[c] \in {"return", "done"}
OpenConns == {c \in Calls : loc[c].conn = "open"}
\* the endpoint the call selected is one whose transport fails
SelectedFailing(c) ==
    /\ loc[c].sel # 0
    /\ \/ Unreachable(peers[loc[c].sel].Endpoint)
       \/ peers[loc[c].sel].TLSCertPath \in badPem
IsTransportError(e) == e.cause = "Unavailable"

\* C1: when a call has returned (on any exit path) or panicked, the connection
\* it opened is no longer open; with no call in flight no connection is open.
C1_ConnectionsReleased ==
    /\ \A c \in Calls : pc[c] \in {"return", "done", "panic"} => loc[c].conn # "open"
    /\ (\A c \in Calls : pc[c] \in {"idle", "done"}) => OpenConns = {}

C1_Witness ==
    /\ \A c \in Calls : pc[c] = "done"
    /\ \E c \in Calls : /\ err[c] = [at |-> "submit", cause |-> "Unavailable"]
                        /\ loc[c].conn = "closed"
    /\ \E c \in Calls : /\ resp[c].code = 200
                        /\ loc[c].conn = "closed"

\* C2: the connection under a gateway session is never closed while the
\* session is open: a session that is open sits on an open connection, and a
\* call that created a session has closed it when it returns.
C2_SessionClosedFirst ==
    \A c \in Calls :
        /\ loc[c].gw = "open" => loc[loc[c].gwConn].conn = "open"
        /\ Returned(c) => loc[c].gw # "open"

C2_Witness ==
    \E c \in Calls : /\ pc[c] = "deferConn"
                     /\ loc[c].gw = "closed"
                     /\ loc[c].conn = "open"

\* C3: a call sends its transaction only through the contract, session and
\* connection it created itself, these are open while it uses them, and none
\* of them is open any more once the call has returned.
C3_NoSharing ==
    \A c \in Calls :
        /\ loc[c].via \in {0, c}
        /\ loc[c].contract \in {0, c}
        /\ loc[c].gwConn \in {0, c}
        /\ pc[c] \in {"call", "order", "status"} =>
              loc[c].conn = "open" /\ loc[c].gw = "open"
        /\ pc[c] \in {"idle", "return", "done"} =>
              loc[c].conn # "open" /\ loc[c].gw # "open"

C3_Witness ==
    \E c, d \in Calls : /\ c # d
                        /\ pc[c] = "status" /\ loc[c].via = c
                        /\ pc[d] = "deferGw" /\ loc[d].via = d
                        /\ loc[c].sel = loc[d].sel

\* C4: no two calls are inside the shared generator's Intn at the same time.
C4_RandExclusive == Cardinality(randBusy) <= 1

\* C5: a call selects a peer once, opens at most one connection and one
\* session and sends at most one proposal; once a step has failed the call
\* only unwinds and returns.
C5_SingleAttempt ==
    \A c \in Calls :
        /\ cnt[c].select <= 1 /\ cnt[c].dial <= 1
        /\ cnt[c].session <= 1 /\ cnt[c].send <= 1
        /\ (loc[c].sel # 0 \/ pc[c] = "return") => cnt[c].select = 1
        /\ err[c] # NoErr =>
              pc[c] \in {"closeNow", "deferGw", "deferConn", "return", "done"}

C5_Witness ==
    \E c \in Calls : /\ pc[c] = "done"
                     /\ err[c] = [at |-> "submit", cause |-> "Unavailable"]
                     /\ cnt[c] = [select |-> 1, dial |-> 1, session |-> 1, send |-> 1]

\* C6: InvokeTransaction goes through proposal, endorsement, ordering and
\* commit status in that order, and a TransactionResult exists only for a
\* transaction whose commit status is known, and reports that status.
C6_ResultAfterCommit ==
    \A c \in Calls :
        /\ pc[c] = "order" => tx[c] = "endorsed"
        /\ pc[c] = "status" => tx[c] \in {"pending", "valid", "invalid"}
        /\ tx[c] # "none" => cnt[c].send = 1
        /\ res[c] # NoRes =>
              /\ tx[c] \in {"valid", "invalid"}
              /\ res[c].BlockNumber = blk[c]
              /\ res[c].Success = (tx[c] = "valid")
        /\ (Returned(c) /\ req[c].kind = "invoke" /\ loc[c].via # 0 /\ err[c] = NoErr) =>
              res[c] # NoRes

C6_Witness ==
    \E c \in Calls : /\ pc[c] = "done"
                     /\ resp[c].code = 200
                     /\ res[c] # NoRes
                     /\ tx[c] = "valid"

\* C7: a call that failed waiting for the commit status had its transaction
\* handed to ordering, and the ledger is free to commit it or not: while the
\* transaction is pending both outcomes can still happen.
C7_CommitFailureOutcomeOpen ==
    \A c \in Calls :
        err[c].at = "commit" =>
            /\ tx[c] \in {"pending", "valid", "invalid"}
            /\ tx[c] = "pending" => (ENABLED LedgerValid(c)) /\ (ENABLED LedgerInvalid(c))

C7_Witness ==
    \E c, d \in Calls : /\ pc[c] = "done" /\ pc[d] = "done"
                        /\ err[c].at = "commit" /\ err[d].at = "commit"
                        /\ tx[c] = "valid" /\ req[c].fcn = "put" /\ world = req[c].arg
                        /\ world # InitialWorld
                        /\ tx[d] = "invalid"

\* C8: the error of a failed commit-status wait differs from the error of a
\* failed submit, in the message and in the HTTP response, also when both
\* have the same cause.
C8_CommitErrorDistinct ==
    \A c, d \in Calls :
        (err[c].at = "commit" /\ err[d].at = "submit") =>
            /\ ErrorMessage(err[c]) # ErrorMessage(err[d])
            /\ ErrorMessage(err[c])[1] # ErrorMessage(err[d])[1]
            /\ (pc[c] = "done" /\ pc[d] = "done") => resp[c] # resp[d]

C8_Witness ==
    \E c, d \in Calls : /\ pc[c] = "done" /\ pc[d] = "done"
                        /\ err[c] = [at |-> "commit", cause |-> "DeadlineExceeded"]
                        /\ err[d] = [at |-> "submit", cause |-> "DeadlineExceeded"]
                        /\ resp[c].code = 500 /\ resp[d].code = 500

\* C9: an evaluate call hands nothing to ordering and so never changes the
\* ledger; two evaluations of the same function and arguments served at the
\* same ledger height return the same payload.
C9_EvaluateReadOnly ==
    /\ \A c \in Calls : req[c].kind = "evaluate" => tx[c] = "none" /\ blk[c] = 0
    /\ height = Cardinality({c \in Calls : req[c].kind = "invoke" /\ tx[c] \in {"valid", "invalid"}})
    /\ height = 0 => world = InitialWorld
    /\ \A c, d \in Calls :
          ( /\ req[c].kind = "evaluate" /\ req[d].kind = "evaluate"
            /\ Returned(c) /\ Returned(d)
            /\ loc[c].via # 0 /\ loc[d].via # 0
            /\ err[c] = NoErr /\ err[d] = NoErr
            /\ req[c].fcn = req[d].fcn /\ req[c].arg = req[d].arg
            /\ evalAt[c] = evalAt[d] ) => payload[c] = payload[d]

C9_Witness ==
    \E c, d \in Calls : /\ c # d
                        /\ pc[c] = "done" /\ pc[d] = "done"
                        /\ req[c].kind = "evaluate" /\ req[c].bodyOK
                        /\ req[c].fcn = "put" /\ req[c].arg = "b"
                        /\ req[d] = req[c]
                        /\ resp[c].code = 200 /\ resp[d].code = 200
                        /\ payload[c] = "b" /\ payload[d] = "b"
                        /\ world = InitialWorld

\* C10: a returned call has a transport error only if it selected a failing
\* peer; a call that selected a failing peer never succeeds, and fails with
\* a transport error unless a local step failed first; a call that selected
\* a healthy peer never fails for transport reasons, whatever other calls did.
C10_FailureIsolated ==
    \A c \in Calls :
        (Returned(c) /\ loc[c].sel # 0) =>
            /\ IsTransportError(err[c]) => SelectedFailing(c)
            /\ SelectedFailing(c) => err[c] # NoErr
            /\ (SelectedFailing(c) /\ err[c].at \in {"dial", "submit", "evaluate"}) =>
                  IsTransportError(err[c])
            /\ ~SelectedFailing(c) => err[c].cause \notin {"Unavailable", "Canceled"}

C10_Witness ==
    \E c, d \in Calls : /\ pc[c] = "done" /\ pc[d] = "done"
                        /\ SelectedFailing(c) /\ IsTransportError(err[c])
                        /\ loc[d].sel # 0 /\ ~SelectedFailing(d)
                        /\ req[d].kind = "invoke" /\ resp[d].code = 200

\* C11: peer selection is stateless.  The index a call selected is always in
\* the range of the configured peer list, and a call that is drawing its
\* index can be handed every configured peer, whatever earlier calls selected
\* and whether they failed.
C11_SelectionStateless ==
    /\ \A c \in Calls :
          /\ loc[c].sel \in 0..Len(peers)
          /\ pc[c] \in {"readTLS", "dial", "gateway", "contract", "call"} =>
                loc[c].sel \in 1..Len(peers)
    /\ \A c \in Calls : pc[c] = "intn" =>
          \A i \in 1..Len(peers) : ENABLED (RandLeave(c) /\ loc'[c].sel = i)

\* a call is drawing its index after another call failed on a peer, with more
\* than one peer configured
C11_Witness ==
    \E c, d \in Calls :
        /\ pc[c] = "intn"
        /\ pc[d] = "done" /\ err[d] # NoErr /\ loc[d].sel # 0
        /\ Len(peers) = MaxPeers

\* C13: a client is never constructed with zero peers, and a server started
\* with an empty peer list (a --peers value that lists no endpoint) never
\* reaches request handling.
C13_EmptyPeerListRejected ==
    /\ srv = "running" => Len(peers) >= 1
    /\ flags.peerEndpoints = 0 => srv # "running"
    /\ flags.peerEndpoints = 0 => \A c \in Calls : pc[c] = "idle"

\* C14: startup with a number of peer endpoints different from the number of
\* TLS certificate paths ends fatally with no client constructed, and in a
\* running server every configured peer has a TLS certificate path.
C14_MismatchFatal ==
    /\ (srv # "starting" /\ flags.peerEndpoints # flags.tlsCertPaths) =>
          (srv = "fatal" /\ peers = <<>>)
    /\ srv = "running" =>
          \A i \in 1..Len(peers) : peers[i].TLSCertPath # 0

\* C15: every connection is pinned to its own peer's certificate.  The i-th
\* configured peer pairs the i-th endpoint with the i-th certificate path; a
\* connection's target and the file its trust roots were loaded from belong
\* to the same peer entry, the one the call selected; so the trust roots of a
\* connection never hold the certificate of a peer other than the one dialed.
C15_PinnedToOwnCertificate ==
    /\ srv = "running" =>
          \A i \in 1..Len(peers) :
              /\ peers[i].Endpoint = Split(flags.peerEndpoints)[i]
              /\ peers[i].TLSCertPath = Split(flags.tlsCertPaths)[i]
    /\ \A c \in Calls : loc[c].conn # "none" =>
          /\ loc[c].target = peers[loc[c].sel].Endpoint
          /\ loc[c].tlsPath = peers[loc[c].sel].TLSCertPath
          /\ \E i \in 1..Len(peers) :
                /\ Split(flags.peerEndpoints)[i] = loc[c].target
                /\ TrustRoots(c) \subseteq {Split(flags.tlsCertPaths)[i]}

\* a connection is open to the last of several peers, with that peer's
\* certificate as its trust root
C15_Witness ==
    \E c \in Calls :
        /\ Len(peers) = MaxPeers /\ MaxPeers > 1
        /\ loc[c].conn = "open"
        /\ loc[c].sel = Len(peers)
        /\ TrustRoots(c) = {peers[Len(peers)].TLSCertPath}

\* C16: when the selected peer's TLS certificate file is unreadable, or its
\* contents are not PEM, opening the connection fails with an error and no
\* connection is opened.
C16_BadTLSCertOpensNothing ==
    \A c \in Calls :
        /\ err[c].at = "tlsread" => loc[c].conn = "none"
        /\ loc[c].tlsPath \in badPem =>
              /\ loc[c].conn = "none"
              /\ pc[c] \in {"return", "done"} => err[c].at = "tlsread"

\* the client call handed a result to the handler: a TransactionResult for
\* an invoke, the evaluated bytes for an evaluate
HasResult(c) ==
    \/ res[c] # NoRes
    \/ req[c].kind = "evaluate" /\ payload[c] # ""
\* the request's body was decoded and the client was called, and the handler
\* goroutine has finished
CallOver(c) == pc[c] = "done" /\ req[c].bodyOK

\* C17: no error is swallowed: a call of InvokeTransaction or
\* EvaluateTransaction that is over has returned exactly one of a result or
\* an error, and an error comes with no result.
C17_ResultXorError ==
    \A c \in Calls :
        /\ err[c] # NoErr => ~HasResult(c)
        /\ CallOver(c) => (err[c] # NoErr \/ HasResult(c))

\* C18: at the HTTP boundary a finished request has its one response; a
\* failed call is answered non-2xx with status "error", the error message and
\* no transaction result fields; 200 with status "success" is sent only when
\* the client call returned without error.
C18_HttpOutcome ==
    \A c \in Calls :
        /\ (pc[c] = "done") = (resp[c] # NoResp)
        /\ (pc[c] = "done" /\ ~(err[c] = NoErr /\ HasResult(c))) =>
              /\ resp[c].code \notin 200..299
              /\ resp[c].status = "error"
              /\ resp[c].error # <<>>
              /\ resp[c].result = NoRes
        /\ (resp[c].code = 200 \/ resp[c].status = "success") =>
              /\ resp[c].code = 200 /\ resp[c].status = "success"
              /\ err[c] = NoErr /\ HasResult(c)

\* C19: the contract a call resolves is the one of the chaincode named by
\* the chaincode_name of the call's request.
C19_RequestChaincodeUsed ==
    \A c \in Calls :
        loc[c].contract # 0 => loc[c].chaincode = req[c].chaincode

\* C20: every session is bound to the channel name and the chaincode name of
\* the startup configuration, and the chaincode name it uses is never unset.
C20_SessionBoundToConfig ==
    \A c \in Calls :
        loc[c].contract # 0 =>
            /\ loc[c].channel = flags.channelName
            /\ loc[c].chaincode = config.ChaincodeName
            /\ loc[c].chaincode # ""

\* C21: with all peers healthy, concurrent InvokeTransaction calls all yield
\* a TransactionResult: every invoke that is over without an error from its
\* environment has a result, produced from the call's own function and
\* arguments and carrying the outcome of its own transaction, and no
\* transaction id appears in two results.
C21_ConcurrentInvokesSucceed ==
    (down = {} /\ badPem = {}) =>
        /\ \A c \in Calls :
              (CallOver(c) /\ req[c].kind = "invoke" /\ err[c] = NoErr) =>
                  /\ res[c] # NoRes
                  /\ res[c].TxID = c
                  /\ res[c].Result = payload[c]
                  /\ req[c].fcn = "put" => res[c].Result = req[c].arg
                  /\ res[c].Success = (tx[c] = "valid")
        /\ \A c, d \in Calls :
              (c # d /\ res[c] # NoRes /\ res[d] # NoRes) => res[c].TxID # res[d].TxID

\* C22: every InvokeTransaction and EvaluateTransaction call eventually
\* returns: a request whose handler has started is eventually answered,
\* whatever its peer and the ledger do, because every blocking phase ends by
\* completing or by its timeout.
C22_CallsReturn ==
    \A c \in Calls : (pc[c] \notin {"idle", "done"}) ~> (pc[c] = "done")

\* a call has returned from a commit-status wait that the ledger never
\* answered: its transaction is still pending
C22_Witness ==
    \E c \in Calls :
        /\ pc[c] = "done"
        /\ tx[c] = "pending"
        /\ err[c] = [at |-> "commit", cause |-> "DeadlineExceeded"]
        /\ resp[c].code = 500

\* C23: the client identity is loaded afresh inside every call.  A call that
\* is about to create its session can get it, and can fail at each of the
\* identity's loading steps, whatever happened to the identity in other
\* calls; a call carries an identity error only if it loaded the identity
\* itself, and then it has no session.
C23_IdentityPerCall ==
    \A c \in Calls :
        /\ pc[c] = "gateway" =>
              /\ ENABLED (createGatewayConnection(c) /\ loc'[c].gw = "open")
              /\ \A e \in GatewayFailures :
                    ENABLED (createGatewayConnection(c) /\ err'[c] = e)
        /\ err[c] \in GatewayFailures =>
              /\ cnt[c].dial = 1 /\ cnt[c].session = 0
              /\ loc[c].gw = "none"
        /\ loc[c].gw # "none" => (cnt[c].session = 1 /\ loc[c].gwConn = c)

\* a call is about to load the identity after another call has failed on a
\* malformed certificate or key
C23_Witness ==
    \E c, d \in Calls :
        /\ pc[d] = "done"
        /\ err[d].at \in {"certparse", "keyparse"}
        /\ pc[c] = "gateway"

\* C24: the caller's context has no effect on a call in flight.  After its
\* context was cancelled a call still takes its next step, it never fails
\* with a cancellation, and the step that yields its result stays possible:
\* the proposal is still evaluated or endorsed on a reachable peer, and a
\* known commit status is still returned as the result.
C24_ContextIgnored ==
    \A c \in Calls :
        /\ err[c].cause # "Canceled"
        /\ (ctxDone[c] /\ pc[c] \notin {"idle", "done"}) => ENABLED CallStep(c)
        /\ (ctxDone[c] /\ pc[c] = "call" /\ Reach(ContractOf(c)) = "OK") =>
              ENABLED ((Endorse(c) \/ Evaluate(c)) /\ err'[c] = NoErr)
        /\ (ctxDone[c] /\ pc[c] = "status" /\ tx[c] \in {"valid", "invalid"}) =>
              ENABLED (CommitStatus(c) /\ res'[c] # NoRes /\ err'[c] = NoErr)

\* the context of a call was cancelled while the call waits for the commit
\* status of its transaction, which is known
C24_Witness ==
    \E c \in Calls :
        /\ ctxDone[c]
        /\ pc[c] = "status"
        /\ tx[c] = "valid"

\* C25: the peer list is immutable after construction: no step of any call,
\* in any interleaving, changes the number, the order or the contents of the
\* configured peers of a running server.
C25_PeersImmutable == [][srv = "running" => peers' = peers]_vars

\* two calls are over on a server with several peers, one failed at the dial
\* and one succeeded, and the peer list is the one the server was started with
C25_Witness ==
    \E c, d \in Calls :
        /\ Len(peers) = MaxPeers /\ MaxPeers > 1
        /\ pc[c] = "done" /\ err[c].at = "dial"
        /\ pc[d] = "done" /\ err[d] = NoErr /\ HasResult(d)
        /\ peers = PeerConfigs(Split(flags.peerEndpoints), Split(flags.tlsCertPaths))

\* C26: a request whose body is not valid JSON is answered with HTTP 400 and
\* status "error" without calling the Fabric client: for that request no peer
\* is selected, no connection or session is opened and nothing is sent.
C26_BadBodyNeverReachesClient ==
    \A c \in Calls :
        (pc[c] # "idle" /\ ~req[c].bodyOK) =>
            /\ pc[c] = "done"
            /\ resp[c] = sendErrorResponse(400, <<"Invalid request body">>)
            /\ cnt[c] = NoCnt
            /\ loc[c] = NoLoc
            /\ tx[c] = "none" /\ payload[c] = "" /\ err[c] = NoErr /\ res[c] = NoRes

\* a request with an undecodable body has been answered while another
\* request is being executed by the client
C26_Witness ==
    \E c, d \in Calls :
        /\ pc[c] = "done" /\ ~req[c].bodyOK /\ resp[c].code = 400
        /\ req[d].bodyOK /\ pc[d] = "call"

\* C27: InvokeTransaction returns a TransactionResult and no error whenever a
\* commit status was obtained, also when the status reports the transaction
\* as invalidated: Success and ResultCode are the status's values, and the
\* HTTP layer answers the call with 200 and status "success".
C27_InvalidatedStillSuccess ==
    \A c \in Calls :
        /\ res[c] # NoRes =>
              /\ err[c] = NoErr
              /\ tx[c] \in {"valid", "invalid"}
              /\ res[c].Success = (tx[c] = "valid")
              /\ (res[c].ResultCode = 0) = (tx[c] = "valid")
              /\ res[c].BlockNumber = blk[c]
        /\ (pc[c] = "status" /\ tx[c] \in {"valid", "invalid"}) =>
              ENABLED (CommitStatus(c) /\ err'[c] = NoErr /\ res'[c] # NoRes)
        /\ (pc[c] = "done" /\ res[c] # NoRes) =>
              resp[c] = sendJSONResponse(200, res[c])

\* a request was answered 200 "success" for a transaction that was
\* invalidated at commit and left the world state as it was
C27_Witness ==
    \E c \in Calls :
        /\ pc[c] = "done"
        /\ tx[c] = "invalid"
        /\ req[c].fcn = "put" /\ req[c].arg # InitialWorld
        /\ resp[c].code = 200 /\ resp[c].status = "success"
        /\ ~resp[c].result.Success /\ resp[c].result.ResultCode # 0
        /\ world = InitialWorld

\* the steps of InvokeTransaction that come before the submit step
BeforeSubmit ==
    {"tlsread", "dial", "certread", "certparse", "identity", "keyread",
     "keyparse", "signer", "connect"}

\* C28: an InvokeTransaction call that fails before the submit step sends no
\* proposal and no transaction and leaves the ledger unchanged: it has no
\* transaction, and the ledger holds exactly the transactions that calls
\* have submitted.
C28_EarlyFailureSendsNothing ==
    /\ \A c \in Calls :
          (req[c].kind = "invoke" /\ err[c].at \in BeforeSubmit) =>
              /\ cnt[c].send = 0 /\ loc[c].via = 0
              /\ tx[c] = "none" /\ payload[c] = "" /\ blk[c] = 0
    /\ height = Cardinality({c \in Calls : tx[c] \in {"valid", "invalid"}})
    /\ (\A c \in Calls : tx[c] # "valid") => world = InitialWorld

\* an invoke has failed at the creation of its session and was answered; the
\* ledger is as it was at the start
C28_Witness ==
    \E c \in Calls :
        /\ req[c].kind = "invoke"
        /\ pc[c] = "done" /\ resp[c].code = 500
        /\ err[c].at = "connect"
        /\ loc[c].conn = "closed"
        /\ height = 0 /\ world = InitialWorld

\* C29: Close is invoked on a call's connection exactly once on every exit
\* path, except when the creation of the gateway session failed: then it is
\* invoked exactly twice, the call still returns the session-creation error
\* and the connection ends closed.  A call that opened no connection closes
\* none.
C29_CloseCounts ==
    \A c \in Calls :
        /\ loc[c].closes <= 2
        /\ loc[c].closes = 2 => err[c] \in GatewayFailures
        /\ Returned(c) =>
              /\ loc[c].conn = "none" => loc[c].closes = 0
              /\ loc[c].conn # "none" =>
                    /\ loc[c].conn = "closed"
                    /\ loc[c].closes = IF err[c] \in GatewayFailures THEN 2 ELSE 1

\* one call returned the error of a failed session creation with its
\* connection closed twice, another returned a result with its connection
\* closed once
C29_Witness ==
    \E c, d \in Calls :
        /\ pc[c] = "done" /\ err[c].at = "signer"
        /\ loc[c].closes = 2 /\ loc[c].conn = "closed"
        /\ resp[c].error = ErrorMessage(err[c])
        /\ pc[d] = "done" /\ err[d] = NoErr /\ loc[d].closes = 1

====
